---- MODULE Spec2Model ----
(***************************************************************************)
(* A model of package confix (src/confix.go and the options file           *)
(* src/unnamed/part_000): New = getConfigPaths -> load -> options, the      *)
(* atomic single-file write writeToFile and the concurrent writeToFiles.    *)
(*                                                                          *)
(* The file system, the temp directory and the process environment are     *)
(* part of the state.  A record is a function Fields -> Val; the content of *)
(* a file is the format it is written in and the fields it mentions.        *)
(***************************************************************************)
EXTENDS Integers, Sequences, FiniteSets, TLC

\* ---------------------------------------------------------------- bounds
\* Field values range over 0..MaxVal.
MaxVal == 2
\* At most MaxFiles entries of the file system exist when New is called.
MaxFiles == 2
\* New is called with at most MaxOpts options.
MaxOpts == 2
\* os.CreateTemp draws its random name from a pool of MaxTmp names per extension.
MaxTmp == 2

\* ------------------------------------------------------- records and data
Fields == {"a", "b"}
Val == 0..MaxVal
Record == [Fields -> Val]

\* the fields a file mentions: a function from a subset of Fields
NoFields == [f \in {} |-> 0]
Bodies == UNION {[D -> Val] : D \in SUBSET Fields}

\* A directory entry.  fmt = "" is a zero-byte file; fmt = "bad" is content no
\* decoder accepts.
Absent == [kind |-> "absent", fmt |-> "", body |-> NoFields]
Directory == [kind |-> "dir", fmt |-> "", body |-> NoFields]
EmptyFile == [kind |-> "file", fmt |-> "", body |-> NoFields]
Garbage == [kind |-> "file", fmt |-> "bad", body |-> NoFields]
Encoded(fmt, body) == [kind |-> "file", fmt |-> fmt, body |-> body]
\* (faulty variant: no file is seen as empty)
Size_NeverZero(e) == 1
\* fi.Size(), as far as processPath looks at it: zero or not
Size(e) == IF e.kind = "file" /\ e.fmt # "" THEN 1 ELSE 0

\* ------------------------------------------------------------------ paths
\* A path is its directory, the base name and the extension.
jsonConfigFileName == [base |-> "config", ext |-> ".json"]
tomlConfigFileName == [base |-> "config", ext |-> ".toml"]
yamlConfigFileName == [base |-> "config", ext |-> ".yaml"]
ymlConfigFileName == [base |-> "config", ext |-> ".yml"]
txtFileName == [base |-> "config", ext |-> ".txt"]
FileNames == {jsonConfigFileName, tomlConfigFileName, yamlConfigFileName,
              ymlConfigFileName, txtFileName}
Exts == {n.ext : n \in FileNames}

\* path.Join(dir, name) and path.Ext(p)
Join(dir, n) == [dir |-> dir, base |-> n.base, ext |-> n.ext]
Ext(p) == p.ext
\* the unset environment variable, and the path of no file
Unset == ""
NoPath == [dir |-> "", base |-> "", ext |-> ""]

\* os.Executable() is the path of the executable FILE; ExeDir is the directory
\* that holds it; a bare file name is relative to the working directory.
currentDir == "/app/prog"
ExeDir == "/app"
Cwd == "."
ConfigDir == "d"
Dirs == {ConfigDir, Cwd, ExeDir, currentDir}
Paths == {Join(d, n) : d \in Dirs, n \in FileNames}

\* ----------------------------------------------------------------- errors
\* An error value is a sequence of failures (errors.Join concatenates); nil is
\* the empty one.
Nil == <<>>
Err(op, fmt, p) == <<[op |-> op, fmt |-> fmt, path |-> p]>>

\* ------------------------------------------------------------------ codec
\* the format each supported extension selects in processPath's switch; "" for
\* every other extension
FormatOf(ext) ==
  CASE ext = ".json" -> "json"
    [] ext \in {".yaml", ".yml"} -> "yaml"
    [] ext = ".toml" -> "toml"
    [] OTHER -> ""

\* (faulty variant: .yml files are written by the TOML encoder)
EncoderFormat_TomlForYml(ext) == IF ext = ".yml" THEN "toml" ELSE FormatOf(ext)

\* the switch of getEncoderForFile, which is not the one processPath decodes by
EncoderFormat(ext) ==
  CASE ext = ".json" -> "json"
    [] ext = ".toml" -> "toml"
    [] ext \in {".yaml", ".yml"} -> "yaml"
    [] OTHER -> ""

\* getEncoderForFile: the encoder for ext, or the unsupported-extension error
getEncoderForFile(ext) ==
  IF EncoderFormat(ext) = ""
    THEN [err |-> Err("unsupported file extension", ext, NoPath), fmt |-> ""]
    ELSE [err |-> Nil, fmt |-> EncoderFormat(ext)]

\* Encode writes every field of the record in the encoder's format.
Encode(fmt, rec) == Encoded(fmt, rec)

\* (faulty variant: the decoder resets the fields the content does not mention)
Overlay_Replaced(rec, body) == [f \in Fields |-> IF f \in DOMAIN body THEN body[f] ELSE 0]

\* The decoders overlay the fields the content mentions onto the record and
\* leave the others; content of another format, or malformed, is an error.
Overlay(rec, body) == [f \in Fields |-> IF f \in DOMAIN body THEN body[f] ELSE rec[f]]
Decode(ext, e, rec) ==
  IF FormatOf(ext) = ""
    THEN [err |-> Err("unsupported file extension", ext, NoPath), cfg |-> rec]
  ELSE IF e.fmt # FormatOf(ext)
    THEN [err |-> Err("error while decoding file", FormatOf(ext), NoPath), cfg |-> rec]
  ELSE [err |-> Nil, cfg |-> Overlay(rec, e.body)]

\* ---------------------------------------------------------------- options
\* WithValidation(f): f may change the record it is given (here: set field a to
\* MaxVal) and returns an error or nil.  WithWritingConfigToFile(target).
\* WithSyncingConfigToFiles().
WithValidation(fails, mutates) ==
  [kind |-> "validate", fails |-> fails, mutates |-> mutates, target |-> NoPath]
WithWritingConfigToFile(t) ==
  [kind |-> "writeOne", fails |-> FALSE, mutates |-> FALSE, target |-> t]
WithSyncingConfigToFiles ==
  [kind |-> "syncAll", fails |-> FALSE, mutates |-> FALSE, target |-> NoPath]

\* ------------------------------------------------------------------ state
VARIABLES
  env,        \* the process environment: [file, dir] (CONFIG_FILE_PATH, CONFIG_DIR_PATH)
  noSearch,   \* the directories the process may not search: os.Stat fails there with EACCES
  fs,         \* the file system: Paths -> entry
  tmp,        \* the temp directory: TempNames -> [used, owner, fmt, body]
  opts,       \* the options New was called with
  cfg,        \* *c.cfg, the caller's record
  paths,      \* c.paths
  pc,         \* where newConfig is
  loadIdx,    \* the index of load's range loop
  optIdx,     \* the index of newConfig's range loop over the options
  writer,     \* the running writeToFile calls: 0 is the caller's own, i > 0 the goroutine for paths[i]
  wg,         \* the WaitGroup counter of writeToFiles
  errCh,      \* the buffered error channel of writeToFiles
  err,        \* the error New returns
  resolveRes, \* "pending", "ok" or "err": what getConfigPaths returned
  loadRes,    \* "pending", "ok" or "err": what load returned
  applied,    \* the indices of the options whose apply was called, in call order
  probed,     \* the paths getConfigPaths has handed to fileExists
  returned,   \* the errors the applied options have returned, in call order
  fs0,        \* the file system when New was called
  cfg0,       \* the record when New was called
  later,      \* the calls of New the program makes after this one: <<[env, opts, cfg], ...>>
  prev,       \* how the program's previous call of New ended: [n, env, cfg, err, finished]
  doomed,     \* the files another process removes while New runs
  rival,      \* the target a concurrent call of New is about to write (NoPath: none)
  opened,     \* the paths load has handed to os.Open, in call order
  finished    \* per writer, the outcome of its last writeToFile call

vars == <<env, noSearch, fs, tmp, opts, cfg, paths, pc, loadIdx, optIdx, writer,
          wg, errCh, err, resolveRes, loadRes, applied, returned, probed, fs0, cfg0,
          later, prev, doomed, rival, opened, finished>>

Writers == 0..MaxFiles
\* the writeToFile call of a concurrent call of New
Rival == MaxFiles + 1
AllWriters == Writers \cup {Rival}
TempNames == [id : 1..MaxTmp, ext : Exts]
NoTmp == [id |-> 0, ext |-> ""]
FreeTmp == [used |-> FALSE, owner |-> 0, fmt |-> "", body |-> NoFields]
\* A writeToFile call: where it is, its target, its temp file, the error it
\* returns, the target's content when it was called and what became of its
\* os.Rename ("pending" until it is called, then "done" or "failed").
Idle == [pc |-> "idle", target |-> NoPath, tmp |-> NoTmp, err |-> Nil,
         prior |-> Absent, renamed |-> "pending"]

\* ------------------------------------------------------------ file system
\* os.Stat(p): EACCES in a directory the process may not search, ENOTDIR below
\* a regular file (the executable), ENOENT for a missing entry.
Stat(p) ==
  IF p.dir \in noSearch THEN [err |-> "EACCES", isDir |-> FALSE]
  ELSE IF p.dir = currentDir THEN [err |-> "ENOTDIR", isDir |-> FALSE]
  ELSE IF fs[p].kind = "absent" THEN [err |-> "ENOENT", isDir |-> FALSE]
  ELSE [err |-> "", isDir |-> fs[p].kind = "dir"]

\* fileExists: err == nil && !f.IsDir()
fileExists(p) == Stat(p).err = "" /\ ~Stat(p).isDir

\* getExistingPaths: the candidates fileExists accepts, in the candidates' order
getExistingPaths(cands) == SelectSeq(cands, fileExists)

\* the candidates of the directory search and of the default search, in the
\* order getConfigPaths lists them
DirCandidates(configDir) ==
  << Join(configDir, jsonConfigFileName), Join(configDir, tomlConfigFileName),
     Join(configDir, ymlConfigFileName), Join(configDir, yamlConfigFileName) >>
DefaultCandidates ==
  << Join(currentDir, tomlConfigFileName), Join(currentDir, jsonConfigFileName),
     Join(currentDir, ymlConfigFileName), Join(currentDir, yamlConfigFileName),
     Join(Cwd, tomlConfigFileName), Join(Cwd, jsonConfigFileName),
     Join(Cwd, ymlConfigFileName), Join(Cwd, yamlConfigFileName) >>

\* (faulty variant: the directory variable is looked at first)
HintCase_DirFirst(configPath, configDir) ==
  IF configDir # Unset THEN "dir"
  ELSE IF configPath # NoPath THEN "file"
  ELSE "default"

\* the switch of getConfigPaths: which case is taken
HintCase(configPath, configDir) ==
  IF configPath # NoPath THEN "file"
  ELSE IF configDir # Unset THEN "dir"
  ELSE "default"

\* os.Create(p) fails where p is a directory, or lies in a directory the process
\* may not search or below a regular file; elsewhere it can succeed.
CanCreate(p) == p.dir \notin noSearch /\ p.dir # currentDir /\ fs[p].kind # "dir"

\* os.Rename(temp, p) needs the same of its target.
CanRenameOnto(p) == CanCreate(p)

Range(s) == {s[i] : i \in 1..Len(s)}

\* ------------------------------------------------------------- newConfig
\* (faulty variants: an error that is not looked at)
ResolveFailed_Ignored(e) == FALSE
LoadFailed_Ignored(e) == FALSE
OptionFailed_Ignored(e) == FALSE

\* the three "if err != nil { return nil, err }" of newConfig
ResolveFailed(e) == e # Nil
LoadFailed(e) == e # Nil
OptionFailed(e) == e # Nil

\* New returns e.
Finish(e) == pc' = "done" /\ err' = e

\* what newConfig does with the error of getConfigPaths
ResolveReturn(e) ==
  /\ resolveRes' = IF e = Nil THEN "ok" ELSE "err"
  /\ IF ResolveFailed(e)
       THEN Finish(e) /\ UNCHANGED loadIdx
       ELSE pc' = "load" /\ loadIdx' = 1 /\ UNCHANGED err

\* what newConfig does with the error of load
LoadReturn(e) ==
  /\ loadRes' = IF e = Nil THEN "ok" ELSE "err"
  /\ IF LoadFailed(e)
       THEN Finish(e) /\ UNCHANGED optIdx
       ELSE pc' = "apply" /\ optIdx' = 1 /\ UNCHANGED err

\* what newConfig does with the error of an option's apply
OptionReturn(e) ==
  /\ returned' = Append(returned, e)
  /\ IF OptionFailed(e)
       THEN Finish(e) /\ UNCHANGED optIdx
       ELSE pc' = "apply" /\ optIdx' = optIdx + 1 /\ UNCHANGED err

\* what is kept of writer w's writeToFile call once it has returned:
\* everything but the name its temp file had
Outcome(w) == [writer[w] EXCEPT !.tmp = NoTmp]

\* a call of writeToFile(fPath) by writer w
Call(w, fPath) ==
  [writer EXCEPT ![w] = [pc |-> "create", target |-> fPath, tmp |-> NoTmp, err |-> Nil,
                         prior |-> fs[fPath], renamed |-> "pending"]]

\* getConfigPaths with setConfigPathForOneFile, up to its call of writeToFile
GetConfigPaths ==
  /\ pc = "resolve"
  /\ LET hint == HintCase(env.file, env.dir) IN
       \/ /\ hint = "file"
          /\ probed' = {env.file}
          /\ IF fileExists(env.file)
               THEN /\ paths' = <<env.file>>
                    /\ ResolveReturn(Nil)
                    /\ UNCHANGED <<fs, writer>>
               ELSE /\ UNCHANGED paths
                    /\ \E created \in (IF CanCreate(env.file) THEN BOOLEAN ELSE {FALSE}) :
                         IF created
                           THEN /\ fs' = [fs EXCEPT ![env.file] = EmptyFile]
                                /\ writer' = [Call(0, env.file) EXCEPT ![0].prior = EmptyFile]
                                /\ pc' = "initWrite"
                                /\ UNCHANGED <<err, resolveRes, loadIdx>>
                           ELSE /\ ResolveReturn(Err("create", "", env.file))
                                /\ UNCHANGED <<fs, writer>>
       \/ /\ hint = "dir"
          /\ probed' = Range(DirCandidates(env.dir))
          /\ paths' = getExistingPaths(DirCandidates(env.dir))
          /\ ResolveReturn(Nil)
          /\ UNCHANGED <<fs, writer>>
       \/ /\ hint = "default"
          /\ probed' = Range(DefaultCandidates)
          /\ paths' = getExistingPaths(DefaultCandidates)
          /\ ResolveReturn(Nil)
          /\ UNCHANGED <<fs, writer>>
  /\ UNCHANGED <<env, noSearch, tmp, opts, cfg, optIdx, wg, errCh, loadRes, applied, fs0, cfg0, returned, later, prev, doomed, rival, opened, finished>>

\* (faulty variant: the file just created is removed when the write fails)
AfterInitWriteError_Removed(files, p) == [files EXCEPT ![p] = Absent]

\* the file system when setConfigPathForOneFile returns writeToFile's error:
\* the created file stays
AfterInitWriteError(files, p) == files

\* setConfigPathForOneFile after its writeToFile has returned
InitWriteReturn ==
  /\ pc = "initWrite"
  /\ writer[0].pc = "ret"
  /\ fs' = IF writer[0].err # Nil THEN AfterInitWriteError(fs, env.file) ELSE fs
  /\ ResolveReturn(writer[0].err)
  /\ writer' = [writer EXCEPT ![0] = Idle]
  /\ finished' = [finished EXCEPT ![0] = Outcome(0)]
  /\ UNCHANGED <<env, noSearch, tmp, opts, cfg, paths, optIdx, wg, errCh, loadRes,
                 applied, probed, fs0, cfg0, returned, later, prev, doomed, rival, opened>>

\* ------------------------------------------------------------------- load
\* (faulty variant: the loop runs from the last path to the first)
PathAt_Reversed(i) == paths[Len(paths) + 1 - i]

\* the path of the i-th iteration of "for _, p := range c.paths"
PathAt(i) == paths[i]

\* (faulty variant: a failed load puts the record back as New found it)
AfterLoadError_RolledBack(rec) == cfg0

\* the record when load returns an error: nothing undoes the earlier decodes
AfterLoadError(rec) == rec

\* (faulty variant: load goes on to the next path after a failure)
PathFailed_Skipped(e) == FALSE

\* the "if err := c.processPath(p); err != nil { return err }" of load
PathFailed(e) == e # Nil

\* processPath(p): what it can return and make of the record.  A missing file
\* is nil; os.Open of an existing one can fail otherwise; a zero-byte file is
\* nil before the extension is looked at; the rest is the decoder's result.
processPath(p) ==
  LET e == fs[p]
      skip == [err |-> Nil, cfg |-> cfg]
  IN IF e.kind = "absent" THEN {skip}
     ELSE {[err |-> Err("open", "", p), cfg |-> cfg],
           IF e.kind = "file" /\ Size(e) = 0 THEN skip ELSE Decode(Ext(p), e, cfg)}

\* one iteration of load's loop
ProcessPath ==
  /\ pc = "load"
  /\ loadIdx <= Len(paths)
  /\ opened' = Append(opened, PathAt(loadIdx))
  /\ \E r \in processPath(PathAt(loadIdx)) :
       IF PathFailed(r.err)
         THEN LoadReturn(r.err) /\ cfg' = AfterLoadError(r.cfg) /\ UNCHANGED loadIdx
         ELSE /\ cfg' = r.cfg
              /\ loadIdx' = loadIdx + 1
              /\ UNCHANGED <<pc, err, loadRes, optIdx>>
  /\ UNCHANGED <<env, noSearch, fs, tmp, opts, paths, writer, wg, errCh, resolveRes,
                 applied, probed, fs0, cfg0, returned, later, prev, doomed, rival, finished>>

\* load's loop has run out of paths
LoadDone ==
  /\ pc = "load"
  /\ loadIdx > Len(paths)
  /\ LoadReturn(Nil)
  /\ UNCHANGED <<env, noSearch, fs, tmp, opts, cfg, paths, loadIdx, writer, wg, errCh,
                 resolveRes, applied, probed, fs0, cfg0, returned, later, prev, doomed, rival, opened, finished>>

\* ------------------------------------------------------------ writeToFile
\* createTempFile("config*" + path.Ext(fPath)): os.CreateTemp fails, or makes an
\* empty file under a name of the pool that is not in use
CreateTempFile(w) ==
  /\ writer[w].pc = "create"
  /\ \/ /\ writer' = [writer EXCEPT ![w].pc = "ret",
                                    ![w].err = Err("create temp", "", writer[w].target)]
        /\ UNCHANGED tmp
     \/ \E n \in TempNames :
          /\ n.ext = Ext(writer[w].target)
          /\ ~tmp[n].used
          /\ tmp' = [tmp EXCEPT ![n] = [used |-> TRUE, owner |-> w, fmt |-> "", body |-> NoFields]]
          /\ writer' = [writer EXCEPT ![w].pc = "encode", ![w].tmp = n]
  /\ UNCHANGED <<env, noSearch, fs, opts, cfg, paths, pc, loadIdx, optIdx, wg, errCh, err,
                 resolveRes, loadRes, applied, probed, fs0, cfg0, returned, later, prev, doomed, rival, opened, finished>>

\* what the open temp file of writer w holds after a write of (fmt, body): the
\* name still leads to the file only while nobody has removed or replaced it
Written(w, n, fmt, body) ==
  IF tmp[n].used /\ tmp[n].owner = w
    THEN [tmp EXCEPT ![n].fmt = fmt, ![n].body = body]
    ELSE tmp

\* (faulty variants: a temp file whose encoding failed is renamed onto the
\* target; a writer gives up before its rename once a sibling has failed)
AfterEncodeError_Rename == "rename"
AfterEncode_Cancelled == IF errCh # <<>> THEN "cleanup" ELSE "rename"

\* (faulty variant: encoding resets the record)
AfterEncoding_Reset(rec) == [f \in Fields |-> 0]

\* the record after e.Encode(c.cfg), which only reads it
AfterEncoding(rec) == rec

\* where writeToFile goes after encodeToFile: "return err" (the deferred
\* cleanup) on an error, os.Rename on nil
AfterEncodeError == "cleanup"
AfterEncode == "rename"

\* encodeToFile(f): the encoder is chosen by the temp file's extension; Encode
\* can fail (the record's marshaller, the write), leaving a partial file
EncodeToFile(w) ==
  /\ writer[w].pc = "encode"
  /\ LET n == writer[w].tmp
         enc == getEncoderForFile(Ext(n))
     IN IF enc.err # Nil
          THEN /\ writer' = [writer EXCEPT ![w].pc = AfterEncodeError, ![w].err = enc.err]
               /\ UNCHANGED tmp
          ELSE \/ /\ writer' = [writer EXCEPT ![w].pc = AfterEncodeError,
                                              ![w].err = Err("encode", enc.fmt, writer[w].target)]
                  /\ tmp' = Written(w, n, "bad", NoFields)
               \/ /\ writer' = [writer EXCEPT ![w].pc = AfterEncode]
                  /\ tmp' = Written(w, n, Encode(enc.fmt, cfg).fmt, Encode(enc.fmt, cfg).body)
  /\ cfg' = AfterEncoding(cfg)
  /\ UNCHANGED <<env, noSearch, fs, opts, paths, pc, loadIdx, optIdx, wg, errCh, err,
                 resolveRes, loadRes, applied, probed, fs0, cfg0, returned, later, prev, doomed, rival, opened, finished>>

\* (faulty variant: the error of os.Rename is returned)
RenameFailed_Returned(e) == e

\* what writeToFile returns when os.Rename has failed with e: it logs e and
\* returns nil
RenameFailed(e) == Nil

\* os.Rename(f.Name(), fPath)
Rename(w) ==
  /\ writer[w].pc = "rename"
  /\ LET n == writer[w].tmp
         t == writer[w].target
     IN \E renamed \in (IF tmp[n].used /\ CanRenameOnto(t) THEN BOOLEAN ELSE {FALSE}) :
          IF renamed
            THEN /\ fs' = [fs EXCEPT ![t] = Encoded(tmp[n].fmt, tmp[n].body)]
                 /\ tmp' = [tmp EXCEPT ![n] = FreeTmp]
                 /\ writer' = [writer EXCEPT ![w].pc = "cleanup", ![w].renamed = "done"]
            ELSE /\ UNCHANGED <<fs, tmp>>
                 /\ writer' = [writer EXCEPT ![w].pc = "cleanup", ![w].renamed = "failed",
                                             ![w].err = RenameFailed(Err("rename", "", t))]
  /\ UNCHANGED <<env, noSearch, opts, cfg, paths, pc, loadIdx, optIdx, wg, errCh, err,
                 resolveRes, loadRes, applied, probed, fs0, cfg0, returned, later, prev, doomed, rival, opened, finished>>

\* (faulty variant: the temp file is left behind)
AfterRemove_Kept(t, n) == t

\* the temp directory t after os.Remove(n)
AfterRemove(t, n) == [t EXCEPT ![n] = FreeTmp]

\* the deferred f.Close() and os.Remove(f.Name())
Cleanup(w) ==
  /\ writer[w].pc = "cleanup"
  /\ tmp' = AfterRemove(tmp, writer[w].tmp)
  /\ writer' = [writer EXCEPT ![w].pc = "ret"]
  /\ UNCHANGED <<env, noSearch, fs, opts, cfg, paths, pc, loadIdx, optIdx, wg, errCh, err,
                 resolveRes, loadRes, applied, probed, fs0, cfg0, returned, later, prev, doomed, rival, opened, finished>>

\* (faulty variant: the channel is one place short)
ErrChCap_OneShort == Len(paths) - 1

\* make(chan error, len(c.paths)): the capacity of the error channel
ErrChCap == Len(paths)

\* writeToFileAsync after writeToFile has returned: send the error, wg.Done()
WriteToFileAsyncReturn(w) ==
  /\ w \in 1..MaxFiles
  /\ writer[w].pc = "ret"
  /\ IF writer[w].err # Nil
       THEN Len(errCh) < ErrChCap /\ errCh' = Append(errCh, writer[w].err)
       ELSE UNCHANGED errCh
  /\ wg' = wg - 1
  /\ writer' = [writer EXCEPT ![w] = Idle]
  /\ finished' = [finished EXCEPT ![w] = Outcome(w)]
  /\ UNCHANGED <<env, noSearch, fs, tmp, opts, cfg, paths, pc, loadIdx, optIdx, err,
                 resolveRes, loadRes, applied, probed, fs0, cfg0, returned, later, prev, doomed, rival, opened>>

\* ---------------------------------------------------------------- options
\* (faulty variant: f is given a copy of the record)
Validated_OnCopy(rec, o) == rec

\* the caller's record after f(c.cfg): c.cfg is the caller's pointer
Validated(rec, o) == IF o.mutates THEN [rec EXCEPT !["a"] = MaxVal] ELSE rec

\* the next option is a WithValidation: f(c.cfg)
ApplyValidation ==
  /\ pc = "apply"
  /\ optIdx <= Len(opts)
  /\ opts[optIdx].kind = "validate"
  /\ applied' = Append(applied, optIdx)
  /\ cfg' = Validated(cfg, opts[optIdx])
  /\ OptionReturn(IF opts[optIdx].fails THEN Err("validation", "", NoPath) ELSE Nil)
  /\ UNCHANGED <<env, noSearch, fs, tmp, opts, paths, loadIdx, writer, wg, errCh,
                 resolveRes, loadRes, probed, fs0, cfg0, later, prev, doomed, rival, opened, finished>>

\* the next option is a WithWritingConfigToFile: c.writeToFile(f) is called
ApplyWriteOne ==
  /\ pc = "apply"
  /\ optIdx <= Len(opts)
  /\ opts[optIdx].kind = "writeOne"
  /\ applied' = Append(applied, optIdx)
  /\ writer' = Call(0, opts[optIdx].target)
  /\ pc' = "writeOne"
  /\ UNCHANGED <<env, noSearch, fs, tmp, opts, cfg, paths, loadIdx, optIdx, wg, errCh, err,
                 resolveRes, loadRes, probed, fs0, cfg0, returned, later, prev, doomed, rival, opened, finished>>

\* ... and has returned
WriteOneReturn ==
  /\ pc = "writeOne"
  /\ writer[0].pc = "ret"
  /\ OptionReturn(writer[0].err)
  /\ writer' = [writer EXCEPT ![0] = Idle]
  /\ finished' = [finished EXCEPT ![0] = Outcome(0)]
  /\ UNCHANGED <<env, noSearch, fs, tmp, opts, cfg, paths, loadIdx, wg, errCh,
                 resolveRes, loadRes, applied, probed, fs0, cfg0, later, prev, doomed, rival, opened>>

\* (faulty variant: the list is probed again and the missing paths dropped)
SyncTargets_Reprobed == SelectSeq(paths, fileExists)

\* the paths writeToFiles ranges over: c.paths as resolved
SyncTargets == paths

\* the next option is a WithSyncingConfigToFiles: writeToFiles up to wg.Wait()
ApplySyncAll ==
  /\ pc = "apply"
  /\ optIdx <= Len(opts)
  /\ opts[optIdx].kind = "syncAll"
  /\ applied' = Append(applied, optIdx)
  /\ wg' = Len(SyncTargets)
  /\ errCh' = <<>>
  /\ writer' = [w \in AllWriters |->
                  IF w \in 1..Len(SyncTargets) THEN Call(w, SyncTargets[w])[w] ELSE writer[w]]
  /\ pc' = "syncAll"
  /\ UNCHANGED <<env, noSearch, fs, tmp, opts, cfg, paths, loadIdx, optIdx, err,
                 resolveRes, loadRes, probed, fs0, cfg0, returned, later, prev, doomed, rival, opened, finished>>

\* (faulty variant: the first error alone is returned)
JoinAll_First(ch) == IF ch = <<>> THEN Nil ELSE Head(ch)

\* errors.Join over the errors drained from the channel
RECURSIVE JoinAll(_)
JoinAll(ch) == IF ch = <<>> THEN Nil ELSE Head(ch) \o JoinAll(Tail(ch))

\* (faulty variant: wg.Wait() is left out)
Wait_Skipped(n) == TRUE

\* wg.Wait() returns once the counter n is zero
Wait(n) == n = 0

\* writeToFiles from wg.Wait() on: close, drain, return the joined error
SyncAllReturn ==
  /\ pc = "syncAll"
  /\ Wait(wg)
  /\ OptionReturn(JoinAll(errCh))
  /\ errCh' = <<>>
  /\ UNCHANGED <<env, noSearch, fs, tmp, opts, cfg, paths, loadIdx, writer, wg,
                 resolveRes, loadRes, applied, probed, fs0, cfg0, later, prev, doomed, rival, opened, finished>>

\* the loop over the options has ended: return c, nil
Return ==
  /\ pc = "apply"
  /\ optIdx > Len(opts)
  /\ Finish(Nil)
  /\ UNCHANGED <<env, noSearch, fs, tmp, opts, cfg, paths, loadIdx, optIdx, writer, wg,
                 errCh, resolveRes, loadRes, applied, probed, fs0, cfg0, returned, later, prev, doomed, rival, opened, finished>>

\* ------------------------------------------------------- the environment
\* Another process removes a resolved file before load opens it (a removal
\* before resolution is a call on another file system; one after the file was
\* read changes nothing this call sees).
Unlink(p) ==
  /\ p \in doomed
  /\ pc = "load"
  /\ p \notin Range(opened)
  /\ fs[p].kind = "file"
  /\ fs' = [fs EXCEPT ![p] = Absent]
  /\ doomed' = doomed \ {p}
  /\ UNCHANGED <<env, noSearch, tmp, opts, cfg, paths, pc, loadIdx, optIdx, writer, wg,
                 errCh, err, resolveRes, loadRes, applied, returned, probed, fs0, cfg0,
                 later, prev, rival, opened, finished>>

\* A concurrent call of New (another goroutine, another process) reaches the
\* writeToFile of its WithWritingConfigToFile(rival); it shares the temp
\* directory with this call and writes an equal record.
RivalCall ==
  /\ rival # NoPath
  /\ pc \in {"writeOne", "syncAll", "initWrite"}
  /\ writer[Rival].pc = "idle"
  /\ writer' = Call(Rival, rival)
  /\ rival' = NoPath
  /\ UNCHANGED <<env, noSearch, fs, tmp, opts, cfg, paths, pc, loadIdx, optIdx, wg, errCh,
                 err, resolveRes, loadRes, applied, returned, probed, fs0, cfg0, later,
                 prev, doomed, opened, finished>>

\* ... and that writeToFile has returned
RivalReturn ==
  /\ writer[Rival].pc = "ret"
  /\ writer' = [writer EXCEPT ![Rival] = Idle]
  /\ finished' = [finished EXCEPT ![Rival] = Outcome(Rival)]
  /\ UNCHANGED <<env, noSearch, fs, tmp, opts, cfg, paths, pc, loadIdx, optIdx, wg, errCh,
                 err, resolveRes, loadRes, applied, returned, probed, fs0, cfg0, later,
                 prev, doomed, rival, opened>>

\* New has returned and the program calls it again: with the environment it
\* has set by then, another record and other options, on the file system the
\* first call left.
NewCall ==
  /\ pc = "done"
  /\ later # <<>>
  /\ env' = Head(later).env
  /\ opts' = Head(later).opts
  /\ cfg' = Head(later).cfg
  /\ cfg0' = Head(later).cfg
  /\ later' = Tail(later)
  /\ prev' = [n |-> prev.n + 1, env |-> env, cfg |-> cfg, err |-> err, finished |-> finished]
  /\ fs0' = fs
  /\ paths' = <<>>
  /\ pc' = "resolve"
  /\ loadIdx' = 0
  /\ optIdx' = 0
  /\ err' = Nil
  /\ resolveRes' = "pending"
  /\ loadRes' = "pending"
  /\ applied' = <<>>
  /\ returned' = <<>>
  /\ probed' = {}
  /\ opened' = <<>>
  /\ finished' = [w \in AllWriters |-> Idle]
  /\ UNCHANGED <<noSearch, fs, tmp, writer, wg, errCh, doomed, rival>>

\* ------------------------------------------------- the calls of New explored
\* The record the caller hands to New.
Seed == [f \in Fields |-> IF f = "a" THEN 1 ELSE 0]

\* the entries that can exist: nothing exists below the executable file
RealPaths == {Join(d, n) : d \in {ConfigDir, Cwd, ExeDir}, n \in FileNames \ {txtFileName}}
SmallSubsets(U) == {S \in SUBSET U : Cardinality(S) <= MaxFiles}
FsWith(m) == [p \in Paths |-> IF p \in DOMAIN m THEN m[p] ELSE Absent]

\* a well-formed file for p's extension that mentions field b only
SampleFile(p) ==
  IF FormatOf(Ext(p)) = "" THEN Garbage
  ELSE Encoded(FormatOf(Ext(p)), [f \in {"b"} |-> 1])

\* what a file of the directory search can hold: nothing, garbage, or any set of
\* fields, all set to one value
Contents(p) ==
  {EmptyFile, Garbage}
  \cup {Encoded(FormatOf(Ext(p)), [f \in D |-> v]) : D \in SUBSET Fields, v \in 1..MaxVal}

Targets == {Join(ConfigDir, tomlConfigFileName), Join(ConfigDir, txtFileName)}
Options ==
  {WithValidation(FALSE, TRUE), WithValidation(TRUE, FALSE), WithSyncingConfigToFiles}
  \cup {WithWritingConfigToFile(t) : t \in Targets}
OptionLists == UNION {[1..n -> Options] : n \in 0..MaxOpts}

\* Path resolution: every setting of the two variables, any few files and
\* directories anywhere, a directory that may not be searched; no options.
ResolveCalls ==
  {[env |-> e, noSearch |-> ns, opts |-> <<>>,
    fs |-> FsWith([p \in DOMAIN m |-> IF m[p] = "dir" THEN Directory ELSE SampleFile(p)])] :
     e \in [file : {NoPath, Join(ConfigDir, jsonConfigFileName)}, dir : {Unset, ConfigDir}],
     ns \in {{}, {ConfigDir}, {Cwd}},
     m \in UNION {[S -> {"dir", "file"}] : S \in SmallSubsets(RealPaths)}}

\* Loading: the directory search over files of every content; no options.
LoadCalls ==
  {[env |-> [file |-> NoPath, dir |-> ConfigDir], noSearch |-> {}, opts |-> <<>>,
    fs |-> FsWith(m)] :
     m \in UNION {{f \in [S -> UNION {Contents(p) : p \in S}] : \A p \in S : f[p] \in Contents(p)} :
                    S \in SmallSubsets(Range(DirCandidates(ConfigDir)))}}

\* Options: every list of options, over a few file systems and the hints that
\* resolve zero, one or two paths.
OptionCalls ==
  {[env |-> e, noSearch |-> {}, opts |-> o,
    fs |-> FsWith([p \in S |-> SampleFile(p)])] :
     e \in {[file |-> NoPath, dir |-> ConfigDir],
            [file |-> Join(ConfigDir, jsonConfigFileName), dir |-> Unset],
            [file |-> Join(ConfigDir, txtFileName), dir |-> Unset]},
     o \in OptionLists,
     S \in {{},
            {Join(ConfigDir, jsonConfigFileName)},
            {Join(ConfigDir, jsonConfigFileName), Join(ConfigDir, yamlConfigFileName)},
            {Join(ConfigDir, jsonConfigFileName), Join(ConfigDir, tomlConfigFileName)}}}

\* An explicit path that exists, of a supported or another extension, empty,
\* malformed or well-formed JSON; alone or synced back.
ExplicitCalls ==
  {[env |-> [file |-> Join(ConfigDir, n), dir |-> Unset], noSearch |-> {}, opts |-> o,
    fs |-> FsWith([p \in {Join(ConfigDir, n)} |-> c])] :
     n \in {txtFileName, jsonConfigFileName},
     c \in {EmptyFile, Garbage, Encoded("json", [f \in {"b"} |-> 1])},
     o \in {<<>>, <<WithSyncingConfigToFiles>>}}

\* one call of New with the record Seed, nothing removed meanwhile
Once(c) ==
  [env |-> c.env, noSearch |-> c.noSearch, opts |-> c.opts, fs |-> c.fs,
   cfg |-> Seed, doomed |-> {}, rival |-> NoPath, later |-> <<>>]

\* The race load tolerates: the directory search finds config.json and
\* config.yaml, and another process removes either or both before they are
\* read; the record is then synced back or not.
RaceCalls ==
  {[env |-> [file |-> NoPath, dir |-> ConfigDir], noSearch |-> {}, opts |-> o,
    fs |-> FsWith([p \in {Join(ConfigDir, jsonConfigFileName), Join(ConfigDir, yamlConfigFileName)} |->
                     IF p.ext = ".json" THEN Encoded("json", [f \in {"b"} |-> 1])
                                        ELSE Encoded("yaml", [f \in {"a"} |-> MaxVal])]),
    cfg |-> Seed, doomed |-> D, rival |-> NoPath, later |-> <<>>] :
     D \in SUBSET {Join(ConfigDir, jsonConfigFileName), Join(ConfigDir, yamlConfigFileName)} \ {{}},
     o \in {<<>>, <<WithSyncingConfigToFiles>>}}

\* the zero value of the record
Zero == [f \in Fields |-> 0]

\* The round trip: New writes any record R to d/config.<ext> with a
\* WithWritingConfigToFile option, then the program names that file as the
\* explicit path and calls New on a zero-value record.
RoundTripCalls ==
  {[env |-> [file |-> NoPath, dir |-> ConfigDir], noSearch |-> {},
    opts |-> <<WithWritingConfigToFile(Join(ConfigDir, n))>>, fs |-> FsWith(<<>>),
    cfg |-> R, doomed |-> {}, rival |-> NoPath,
    later |-> << [env |-> [file |-> Join(ConfigDir, n), dir |-> Unset], opts |-> <<>>, cfg |-> Zero] >>] :
     R \in Record, n \in FileNames \ {txtFileName}}

\* The program names a missing file as the explicit path, calls New and,
\* whatever came of it, calls New again.
RetryCalls ==
  {[env |-> [file |-> Join(ConfigDir, n), dir |-> Unset], noSearch |-> {}, opts |-> <<>>,
    fs |-> FsWith(<<>>), cfg |-> Seed, doomed |-> {}, rival |-> NoPath,
    later |-> << [env |-> [file |-> Join(ConfigDir, n), dir |-> Unset], opts |-> <<>>, cfg |-> Seed] >>] :
     n \in {txtFileName, jsonConfigFileName}}

\* Two calls of New at once: this one writes d/config.toml, or finds two files
\* in d and syncs them, while a concurrent one writes ./config.toml.
RivalCalls ==
  {[env |-> [file |-> NoPath, dir |-> ConfigDir], noSearch |-> {}, opts |-> c.opts,
    fs |-> FsWith([p \in c.files |-> SampleFile(p)]), cfg |-> Seed, doomed |-> {},
    rival |-> Join(Cwd, tomlConfigFileName), later |-> <<>>] :
     c \in {[opts |-> <<WithWritingConfigToFile(Join(ConfigDir, tomlConfigFileName))>>, files |-> {}],
            [opts |-> <<WithSyncingConfigToFiles>>,
             files |-> {Join(ConfigDir, jsonConfigFileName), Join(ConfigDir, tomlConfigFileName)}]}}

Calls ==
  {Once(c) : c \in ResolveCalls \cup LoadCalls \cup OptionCalls \cup ExplicitCalls}
  \cup RaceCalls \cup RoundTripCalls \cup RetryCalls \cup RivalCalls

\* the state in which New is called with the inputs of call
Start(call) ==
    /\ env = call.env
    /\ noSearch = call.noSearch
    /\ fs = call.fs
    /\ fs0 = call.fs
    /\ opts = call.opts
    /\ tmp = [n \in TempNames |-> FreeTmp]
    /\ cfg = call.cfg
    /\ cfg0 = call.cfg
    /\ later = call.later
    /\ doomed = call.doomed
    /\ rival = call.rival
    /\ prev = [n |-> 0, env |-> call.env, cfg |-> call.cfg, err |-> Nil, finished |-> [w \in AllWriters |-> Idle]]
    /\ opened = <<>>
    /\ finished = [w \in AllWriters |-> Idle]
    /\ paths = <<>>
    /\ pc = "resolve"
    /\ loadIdx = 0
    /\ optIdx = 0
    /\ writer = [w \in AllWriters |-> Idle]
    /\ wg = 0
    /\ errCh = <<>>
    /\ err = Nil
    /\ resolveRes = "pending"
    /\ loadRes = "pending"
    /\ applied = <<>>
    /\ returned = <<>>
    /\ probed = {}

Init == \E call \in Calls : Start(call)

Next ==
  \/ GetConfigPaths
  \/ InitWriteReturn
  \/ ProcessPath
  \/ LoadDone
  \/ ApplyValidation
  \/ ApplyWriteOne
  \/ WriteOneReturn
  \/ ApplySyncAll
  \/ SyncAllReturn
  \/ Return
  \/ \E w \in AllWriters : CreateTempFile(w)
  \/ \E w \in AllWriters : EncodeToFile(w)
  \/ \E w \in AllWriters : Rename(w)
  \/ \E w \in AllWriters : Cleanup(w)
  \/ \E w \in Writers : WriteToFileAsyncReturn(w)
  \/ \E p \in Paths : Unlink(p)
  \/ NewCall
  \/ RivalCall
  \/ RivalReturn

Spec == Init /\ [][Next]_vars

\* The Go scheduler runs a goroutine that can run: while a sync-all has a step
\* to take, one is taken in the end, by a goroutine writeToFiles started (each
\* system call of writeToFile returns) or by writeToFiles once wg.Wait() can
\* return.  Which goroutine goes first is left open.
WriterStep(w) ==
  \/ CreateTempFile(w)
  \/ EncodeToFile(w)
  \/ Rename(w)
  \/ Cleanup(w)
  \/ WriteToFileAsyncReturn(w)
SyncAllStep == SyncAllReturn \/ \E w \in 1..MaxFiles : WriterStep(w)

\* The calls in which a sync-all runs, whatever the other options and wherever
\* it stands among them, alone or beside a concurrent call; and the program
\* calling New again.
SyncAllCalls ==
  {c \in {Once(c) : c \in OptionCalls \cup ExplicitCalls} \cup RaceCalls \cup RivalCalls :
     \E i \in DOMAIN c.opts : c.opts[i].kind = "syncAll"}
  \cup RetryCalls

FairInit == \E call \in SyncAllCalls : Start(call)

FairSpec == FairInit /\ [][Next]_vars /\ WF_vars(SyncAllStep)

\* =================================================================== claims
Hint == HintCase(env.file, env.dir)

\* the paths an applied option, or the resolver, may have written
WriteTargets(i) ==
  CASE opts[i].kind = "writeOne" -> {opts[i].target}
    [] opts[i].kind = "syncAll" -> Range(paths)
    [] OTHER -> {}
ResolverTargets == IF Hint = "file" THEN {env.file} ELSE {}
Touched == ResolverTargets \cup UNION {WriteTargets(i) : i \in Range(applied)}

\* C1: the options are applied in the caller's order and New stops at the first
\* one that returns an error, returning that error: the options applied are
\* always 1, 2, ..., k in this order, each before the k-th has returned nil, an
\* option after a failing one is never applied and the target of a write option
\* that has not been applied is as it was when New was called (unless the
\* resolver or an applied option writes the same path); when New returns after
\* loading, every applied option has returned, and either the last one failed
\* and New returns its error, or all options were applied and New returns nil.
C1_OptionsInOrderUntilFirstError ==
  /\ applied = [i \in 1..Len(applied) |-> i]
  /\ Len(applied) <= Len(opts)
  /\ Len(returned) <= Len(applied)
  /\ Len(applied) <= Len(returned) + 1
  /\ \A i \in 1..Len(returned) : returned[i] # Nil => i = Len(applied) /\ pc = "done"
  /\ \A j \in 1..Len(opts) :
       (j \notin Range(applied) /\ opts[j].kind = "writeOne" /\ opts[j].target \notin Touched)
         => fs[opts[j].target] = fs0[opts[j].target]
  /\ (pc = "done" /\ loadRes = "ok") =>
       /\ Len(returned) = Len(applied)
       /\ \A w \in Writers : writer[w] = Idle
       /\ IF err # Nil
            THEN returned # <<>> /\ err = returned[Len(returned)]
            ELSE Len(applied) = Len(opts)

\* C1 witness: a failing validation before a write option: New has returned the
\* error, the write option was never applied and its target was not created.
C1_Witness ==
  /\ pc = "done"
  /\ Len(opts) = 2
  /\ opts[1] = WithValidation(TRUE, FALSE)
  /\ opts[2].kind = "writeOne"
  /\ applied = <<1>>
  /\ err # Nil
  /\ fs[opts[2].target].kind = "absent"

\* C2: if the validator returns an error, no write-back to any file has been
\* performed during the call: when New returns a validation error, every path
\* is as it was when New was called (the file the resolver creates for a
\* missing explicit path aside).
C2_NoWriteBackWhenValidationFails ==
  (pc = "done" /\ err # Nil /\ err[1].op = "validation")
    => \A p \in Paths \ ResolverTargets : fs[p] = fs0[p]

\* C3: Resolve -> Load -> options, with no way back: load runs only after
\* getConfigPaths returned nil, an option is applied only after load returned
\* nil, a resolve error leaves load and the options unrun (and the record as it
\* was), a load error leaves the options unrun, and the resolver is not
\* re-entered once load has begun, nor load once the options have.
C3_LinearPipeline ==
  /\ (loadIdx > 0 \/ loadRes # "pending" \/ pc = "load") => resolveRes = "ok"
  /\ (optIdx > 0 \/ applied # <<>> \/ pc \in {"apply", "writeOne", "syncAll"})
       => (resolveRes = "ok" /\ loadRes = "ok")
  /\ resolveRes = "err" => (pc = "done" /\ err # Nil /\ loadRes = "pending" /\ loadIdx = 0
                             /\ applied = <<>> /\ cfg = cfg0)
  /\ loadRes = "err" => (pc = "done" /\ err # Nil /\ applied = <<>> /\ optIdx = 0)
  /\ pc \in {"resolve", "initWrite"} => (resolveRes = "pending" /\ loadIdx = 0 /\ optIdx = 0)
  /\ pc = "load" => (loadRes = "pending" /\ optIdx = 0)

\* C3 witness: load has failed in a call of New that was given options, and New
\* has returned the error without applying any of them.
C3_Witness ==
  /\ pc = "done"
  /\ loadRes = "err"
  /\ Len(opts) > 0
  /\ applied = <<>>
  /\ err # Nil

\* an entry that was a regular file when New was called
WasRegularFile(p) == fs0[p].kind = "file"

\* C4: with the explicit-file variable naming p, the resolved list is exactly
\* <<p>> once resolution has succeeded, whether p existed or was just created.
C4_ExplicitPathIsResolved ==
  (Hint = "file" /\ resolveRes = "ok") => paths = <<env.file>>

\* C5: when New returns nil for an explicit path p that did not exist, p is a
\* non-empty file holding the encoding, in the format of p's extension, of the
\* record as it was before loading.
C5_CreatedFileHoldsRecord ==
  (pc = "done" /\ err = Nil /\ Hint = "file" /\ fs0[env.file].kind = "absent")
    => fs[env.file] = Encode(FormatOf(Ext(env.file)), cfg0)

\* C6: one hint is honoured, explicit file before directory before default
\* search: once getConfigPaths has probed, the paths it has probed and the
\* paths it has resolved are those of the explicit file alone if that variable
\* is set, else those of the directory alone if that variable is set, else the
\* default locations.
C6_OneHintByPrecedence ==
  (probed # {} \/ resolveRes # "pending") =>
    LET honoured == IF env.file # NoPath THEN {env.file}
                    ELSE IF env.dir # Unset
                      THEN {Join(env.dir, n) : n \in FileNames \ {txtFileName}}
                    ELSE {Join(d, n) : d \in {currentDir, Cwd}, n \in FileNames \ {txtFileName}}
    IN probed = honoured /\ Range(paths) \subseteq honoured

\* C6 witness: both variables are set, the directory holds another config file,
\* and resolution has returned the explicit file alone.
C6_Witness ==
  /\ resolveRes = "ok"
  /\ env.file = Join(ConfigDir, jsonConfigFileName)
  /\ env.dir = ConfigDir
  /\ fs[Join(ConfigDir, tomlConfigFileName)].kind = "file"
  /\ paths = <<env.file>>

\* C7: with the directory variable naming d, the resolved list is the
\* candidates d/config.json, d/config.toml, d/config.yml, d/config.yaml that
\* exist as regular files, in this order.
C7_DirectoryHintListsExistingFiles ==
  (Hint = "dir" /\ resolveRes = "ok") =>
    paths = SelectSeq(<< Join(env.dir, jsonConfigFileName), Join(env.dir, tomlConfigFileName),
                         Join(env.dir, ymlConfigFileName), Join(env.dir, yamlConfigFileName) >>,
                      WasRegularFile)

\* C8: with no variable set (and every directory searchable), the resolved list
\* is the existing regular files among config.toml, config.json, config.yml,
\* config.yaml in the executable's directory, then the same names in the
\* working directory.
C8_DefaultSearchFindsExecutableDir ==
  (Hint = "default" /\ resolveRes = "ok" /\ noSearch = {}) =>
    paths = SelectSeq(<< Join(ExeDir, tomlConfigFileName), Join(ExeDir, jsonConfigFileName),
                         Join(ExeDir, ymlConfigFileName), Join(ExeDir, yamlConfigFileName),
                         Join(Cwd, tomlConfigFileName), Join(Cwd, jsonConfigFileName),
                         Join(Cwd, ymlConfigFileName), Join(Cwd, yamlConfigFileName) >>,
                      WasRegularFile)

\* C9: a probe that fails with an error other than not-found (here EACCES, in
\* a directory that may not be searched) makes resolution fail.
C9_ProbeErrorsAreFatal ==
  (resolveRes # "pending" /\ \E p \in probed : p.dir \in noSearch) => resolveRes = "err"

\* file p sets field x: p is a non-empty well-formed file that mentions x
Sets(p, x) == fs[p].kind = "file" /\ fs[p].fmt = FormatOf(Ext(p)) /\ x \in DOMAIN fs[p].body

\* C10: load decodes the paths in the order they were resolved: after a
\* successful load (before any option), a field set by two resolved files has
\* the value of the later one, the last resolved file that sets it.
C10_LaterFileWins ==
  (loadRes = "ok" /\ applied = <<>>) =>
    \A x \in Fields : \A i, j \in 1..Len(paths) :
      (/\ i < j
       /\ Sets(paths[i], x)
       /\ Sets(paths[j], x)
       /\ \A k \in (j + 1)..Len(paths) : ~Sets(paths[k], x))
        => cfg[x] = fs[paths[j]].body[x]

\* C10 witness: the directory search resolved config.json (a = 1) before
\* config.yaml (a = 2), and the loaded record has a = 2.
C10_Witness ==
  /\ loadRes = "ok"
  /\ applied = <<>>
  /\ paths = <<Join(ConfigDir, jsonConfigFileName), Join(ConfigDir, yamlConfigFileName)>>
  /\ Sets(paths[1], "a") /\ fs[paths[1]].body["a"] = 1
  /\ Sets(paths[2], "a") /\ fs[paths[2]].body["a"] = 2
  /\ cfg["a"] = 2

\* C11: after a successful load (before any option) every field that no
\* resolved file mentions holds the value it had when New was called; when no
\* path is resolved load cannot fail, the record is as it was, and New called
\* without options returns nil.
C11_UnmentionedFieldsKeepTheirValue ==
  /\ (loadRes = "ok" /\ applied = <<>>) =>
       \A x \in Fields : (\A i \in 1..Len(paths) : ~Sets(paths[i], x)) => cfg[x] = cfg0[x]
  /\ (resolveRes = "ok" /\ paths = <<>>) =>
       /\ loadRes # "err"
       /\ applied = <<>> => cfg = cfg0
       /\ (pc = "done" /\ opts = <<>>) => err = Nil

\* C11 witness: the one resolved file mentions b and not a; after the load b
\* has the file's value and a the caller's, which is not the zero value.
C11_Witness ==
  /\ loadRes = "ok"
  /\ applied = <<>>
  /\ Len(paths) = 1
  /\ Sets(paths[1], "b") /\ ~Sets(paths[1], "a")
  /\ cfg["b"] = fs[paths[1]].body["b"] /\ cfg["b"] # cfg0["b"]
  /\ cfg["a"] = cfg0["a"] /\ cfg0["a"] # 0

\* C12: the iteration of load on a resolved path that is missing, or is a
\* zero-byte file that opens, whatever its extension, leaves the record as it
\* is, raises no error and moves load on to the next path.
C12_AbsentAndEmptyFilesAreSkipped ==
  [][(/\ pc = "load"
      /\ loadIdx <= Len(paths)
      /\ opened' # opened
      /\ (fs[paths[loadIdx]].kind = "absent" \/ fs[paths[loadIdx]] = EmptyFile)
      /\ err' # Err("open", "", paths[loadIdx]))
       => (/\ cfg' = cfg
           /\ err' = Nil
           /\ pc' = "load"
           /\ loadRes' = "pending"
           /\ loadIdx' = loadIdx + 1)]_vars

\* C12 witness: config.json was resolved and then removed; load has gone past
\* it, has read config.yaml after it and has ended without an error.
C12_Witness ==
  /\ loadRes = "ok"
  /\ paths = <<Join(ConfigDir, jsonConfigFileName), Join(ConfigDir, yamlConfigFileName)>>
  /\ opened = paths
  /\ fs0[paths[1]].kind = "file" /\ fs[paths[1]].kind = "absent"
  /\ Sets(paths[2], "a")
  /\ cfg = Overlay(cfg0, fs[paths[2]].body)

\* the decoder of p's extension rejects what p holds (or p, not empty, has an
\* extension that has no decoder)
DecodeFails(p) ==
  fs[p].kind = "file" /\ fs[p].fmt # "" /\ fs[p].fmt # FormatOf(Ext(p))

\* C13: the first path whose decode fails ends the load: load has failed on
\* the path it stands at, New has returned that path's decode error, which
\* names the format (or, for an extension that has no decoder, the extension),
\* the paths opened are those up to it and no option has run; and a load that
\* succeeded met no such path.
C13_FirstDecodeErrorAbortsLoad ==
  /\ (loadRes = "err" /\ err # Err("open", "", paths[loadIdx])) =>
       LET p == paths[loadIdx] IN
         /\ pc = "done"
         /\ DecodeFails(p)
         /\ err = Decode(Ext(p), fs[p], cfg).err
         /\ err[1].fmt = (IF Ext(p) \in {".json", ".yaml", ".yml", ".toml"}
                            THEN FormatOf(Ext(p)) ELSE Ext(p))
         /\ err[1].fmt # ""
         /\ opened = SubSeq(paths, 1, loadIdx)
         /\ \A i \in 1..(loadIdx - 1) : ~DecodeFails(paths[i])
         /\ applied = <<>>
  /\ (loadRes = "ok" /\ applied = <<>>) => \A i \in 1..Len(opened) : ~DecodeFails(opened[i])

\* C13 witness: the first of two resolved files is malformed and the second
\* well-formed; New has returned the decode error, the second file was never
\* opened and the record is as it was.
C13_Witness ==
  /\ pc = "done"
  /\ loadRes = "err"
  /\ Len(paths) = 2
  /\ loadIdx = 1
  /\ fs[paths[1]] = Garbage
  /\ Sets(paths[2], "b")
  /\ opened = <<paths[1]>>
  /\ err = Err("error while decoding file", FormatOf(Ext(paths[1])), NoPath)
  /\ cfg = cfg0

\* the complete encoding of the record for the extension of target t
FullEncoding(t) == Encode(FormatOf(Ext(t)), cfg)

\* C14: at every point of a writeToFile call, from its entry to its return,
\* the target is as it was when the call began or holds the complete encoding
\* of the record in the format of the target's extension, never anything
\* else; once the rename has succeeded it holds that encoding.
C14_TargetNeverPartial ==
  \A w \in Writers :
    writer[w].pc # "idle" =>
      /\ fs[writer[w].target] \in {writer[w].prior, FullEncoding(writer[w].target)}
      /\ writer[w].renamed = "done" =>
           /\ FormatOf(Ext(writer[w].target)) # ""
           /\ fs[writer[w].target] = FullEncoding(writer[w].target)
      /\ writer[w].renamed # "done" => fs[writer[w].target] = writer[w].prior

\* C14 witness: a WithWritingConfigToFile on a file that existed with other
\* content has returned after its rename, and the file holds the encoding.
C14_Witness ==
  /\ pc = "writeOne"
  /\ writer[0].pc = "ret"
  /\ writer[0].renamed = "done"
  /\ writer[0].prior.kind = "file"
  /\ writer[0].prior # fs[writer[0].target]
  /\ fs[writer[0].target] = FullEncoding(writer[0].target)

\* C15: a writeToFile call returns nil when its rename failed, and the target
\* is then as it was; it returns an error when the temp file could not be
\* created and when encoding failed, which is always the case for a target
\* extension that has no encoder; it returns no other error.
C15_RenameFailureSwallowed ==
  \A w \in Writers :
    writer[w].pc = "ret" =>
      /\ writer[w].renamed = "failed" =>
           (writer[w].err = Nil /\ fs[writer[w].target] = writer[w].prior)
      /\ writer[w].tmp = NoTmp => writer[w].err = Err("create temp", "", writer[w].target)
      /\ (writer[w].tmp # NoTmp /\ writer[w].renamed = "pending") =>
           /\ writer[w].err # Nil
           /\ writer[w].err[1].op \in {"encode", "unsupported file extension"}
      /\ FormatOf(Ext(writer[w].target)) = "" => writer[w].err # Nil
      /\ writer[w].err # Nil => writer[w].renamed = "pending"

\* C15 witness: the rename of a WithWritingConfigToFile onto a target that can
\* be written has failed; the call has returned nil and the target is absent
\* as before.
C15_Witness ==
  /\ pc = "writeOne"
  /\ writer[0].pc = "ret"
  /\ writer[0].renamed = "failed"
  /\ writer[0].err = Nil
  /\ CanRenameOnto(writer[0].target)
  /\ fs[writer[0].target].kind = "absent"

\* C16: when a writeToFile call that created a temp file returns, after an
\* encode error, a failed rename or a successful one, that temp file is not
\* in the temp directory; none of the call's is left when New returns.
C16_TempFileRemoved ==
  /\ \A w \in Writers :
       (writer[w].pc = "ret" /\ writer[w].tmp # NoTmp) =>
         ~(tmp[writer[w].tmp].used /\ tmp[writer[w].tmp].owner = w)
  /\ pc = "done" => \A n \in TempNames : ~(tmp[n].used /\ tmp[n].owner \in Writers)

\* C16 witness: a writer of writeToFiles has returned an encode error, another
\* one nil after a failed rename, and neither temp file exists.
C16_Witness ==
  /\ pc = "syncAll"
  /\ \E v, w \in 1..Len(paths) :
       /\ writer[v].pc = "ret" /\ writer[v].tmp # NoTmp /\ writer[v].err # Nil
       /\ writer[w].pc = "ret" /\ writer[w].tmp # NoTmp /\ writer[w].renamed = "failed"
       /\ ~tmp[writer[v].tmp].used /\ ~tmp[writer[w].tmp].used

\* option i is a sync-all that has returned, and no later sync-all has started
LastSyncAll(i) ==
  /\ i \in 1..Len(returned)
  /\ opts[i].kind = "syncAll"
  /\ \A j \in (i + 1)..Len(applied) : opts[j].kind # "syncAll"

\* the writers of that sync-all that returned an error
Failed == {w \in 1..Len(paths) : finished[w].err # Nil}

C18_SiblingFailureDoesNotCancel ==
  (Len(applied) = Len(returned) /\ LastSyncAll(Len(returned))) =>
    \A w \in 1..Len(paths) :
      /\ finished[w].pc = "ret"
      /\ finished[w].target = paths[w]
      /\ finished[w].err = Nil => finished[w].renamed \in {"done", "failed"}
      /\ finished[w].renamed = "done" => fs[paths[w]] = FullEncoding(paths[w])

\* C18 witness: of the two writers of a sync-all the first has failed and the
\* second has replaced its target by the encoding of the record.
C18_Witness ==
  /\ Len(applied) = Len(returned)
  /\ LastSyncAll(Len(returned))
  /\ Len(paths) = 2
  /\ finished[1].err # Nil
  /\ finished[2].renamed = "done"
  /\ fs[paths[2]] = FullEncoding(paths[2])
  /\ fs[paths[2]] # fs0[paths[2]]
  /\ fs[paths[1]] = fs0[paths[1]]

\* C19: no goroutine of writeToFiles is running unless writeToFiles is: while
\* it waits the WaitGroup counts the writers that have not finished, and once
\* it has returned, with the next option started or New returned, every writer
\* it started has finished.
C19_SyncAllWaitsForEveryWriter ==
  /\ pc # "syncAll" => \A w \in 1..MaxFiles : writer[w].pc = "idle"
  /\ pc = "syncAll" => wg = Cardinality({w \in 1..MaxFiles : writer[w].pc # "idle"})
  /\ \A i \in 1..Len(opts) :
       LastSyncAll(i) => \A w \in 1..Len(paths) : finished[w].pc = "ret"

\* C19 witness: a sync-all over two paths was followed by another option; that
\* option has been applied, and both writers had finished.
C19_Witness ==
  /\ Len(paths) = 2
  /\ Len(opts) = 2
  /\ opts[1].kind = "syncAll"
  /\ opts[2].kind = "validate"
  /\ applied = <<1, 2>>
  /\ finished[1].pc = "ret" /\ finished[2].pc = "ret"
  /\ \A w \in 1..MaxFiles : writer[w].pc = "idle"

\* the program's previous call of New wrote its record to p with a
\* WithWritingConfigToFile whose rename succeeded, and returned nil
WroteTo(p) ==
  /\ prev.n = 1
  /\ prev.err = Nil
  /\ prev.finished[0].target = p
  /\ prev.finished[0].renamed = "done"

Running == {w \in 1..MaxFiles : writer[w].pc # "idle"}

\* C21: the error channel has room for one error of every writer that has not
\* finished, so a writer that has an error to send can send it; and, every
\* step of every writer being taken in the end, a sync-all that has started
\* returns: New is again and again outside sync-all.
C21_SyncAllTerminates ==
  /\ [](pc = "syncAll" =>
         /\ Len(errCh) + Cardinality(Running) <= ErrChCap
         /\ \A w \in Running : writer[w].pc = "ret" => Len(errCh) < ErrChCap)
  /\ []<>(pc # "syncAll")

\* C21 witness: both writers of a sync-all over two paths have sent an error;
\* the channel is full and the WaitGroup's counter is zero.
C21_Witness ==
  /\ pc = "syncAll"
  /\ Len(paths) = 2
  /\ Len(errCh) = 2
  /\ wg = 0
  /\ Running = {}

\* a write-one or a sync-all of this call is running
WritingBack == pc \in {"writeOne", "syncAll", "initWrite"}

\* C22: no step taken from the call of a write-one or sync-all to its return,
\* by the call or by any of its writers in any order, changes the record.
C22_WriteBackLeavesRecord ==
  [][(WritingBack \/ WritingBack') => cfg' = cfg]_vars

\* C22 witness: a sync-all over two paths has ended with one writer failed and
\* the other renamed onto its path, which holds the encoding of the record as
\* it still is.
C22_Witness ==
  /\ pc = "syncAll"
  /\ wg = 0
  /\ cfg # Zero
  /\ \E v, w \in 1..Len(paths) :
       /\ finished[v].pc = "ret" /\ finished[v].err # Nil
       /\ finished[w].pc = "ret" /\ finished[w].renamed = "done"
       /\ fs[paths[w]].body = FullEncoding(paths[w]).body

\* C23: once resolution has ended the path list stays as it is, whatever load,
\* the validations, the write-ones and the sync-alls of the call do; and the
\* writers of a sync-all are those of the list's paths, one each in the list's
\* order, whether or not the files still exist.
C23_PathListFixed ==
  /\ [][(resolveRes = "ok" /\ resolveRes' = "ok") => paths' = paths]_vars
  /\ [](pc = "syncAll" =>
         /\ \A w \in 1..Len(paths) :
              IF writer[w].pc # "idle"
                THEN writer[w].target = paths[w]
                ELSE finished[w].pc = "ret" /\ finished[w].target = paths[w]
         /\ \A w \in 1..MaxFiles : w > Len(paths) => writer[w].pc = "idle"
         /\ wg = Cardinality(Running))

\* C23 witness: d/config.json was found by the search and removed before load
\* read it (its field b never reached the record); the sync-all has written it
\* again all the same, and the list still has both paths.
C23_Witness ==
  /\ pc = "syncAll"
  /\ wg = 0
  /\ Len(paths) = 2
  /\ \E w \in 1..Len(paths) :
       /\ paths[w] = Join(ConfigDir, jsonConfigFileName)
       /\ fs0[paths[w]].kind = "file"
       /\ "b" \in DOMAIN fs0[paths[w]].body
       /\ fs0[paths[w]].body["b"] = 1
       /\ cfg["b"] = 0
       /\ doomed = {}
       /\ finished[w].renamed = "done"
       /\ fs[paths[w]].body = FullEncoding(paths[w]).body

\* option i is a validation whose function changes the record, and has returned
ChangedBy(i) ==
  /\ i \in 1..Len(returned)
  /\ opts[i].kind = "validate"
  /\ opts[i].mutates

\* option j is a write-one that has returned, and no later write-one has started
LastWriteOne(j) ==
  /\ j \in 1..Len(returned)
  /\ opts[j].kind = "writeOne"
  /\ \A k \in (j + 1)..Len(applied) : opts[k].kind # "writeOne"

\* C24: what a validation function has made of the record is the record from
\* then on, in New and after it; a write-one placed after it that renamed its
\* temp file has left that record in its target; and after a validation that
\* returned nil New does not return before the next option is applied.
C24_ValidationActsOnCallersRecord ==
  \A i \in 1..Len(returned) :
    /\ ChangedBy(i) => cfg["a"] = MaxVal
    /\ \A j \in (i + 1)..Len(returned) :
         (ChangedBy(i) /\ LastWriteOne(j) /\ finished[0].renamed = "done") =>
           /\ fs[opts[j].target] = FullEncoding(opts[j].target)
           /\ fs[opts[j].target].body["a"] = MaxVal
    /\ (opts[i].kind = "validate" /\ ~opts[i].fails) =>
         /\ returned[i] = Nil
         /\ (i < Len(opts) /\ pc = "done") => i + 1 \in Range(applied)

\* C24 witness: no file was found, the validation changed field a of the
\* caller's record and returned nil, the write-one after it ran, and New has
\* returned nil with the changed record in memory and in d/config.toml.
C24_Witness ==
  /\ pc = "done"
  /\ err = Nil
  /\ paths = <<>>
  /\ opts = <<WithValidation(FALSE, TRUE), WithWritingConfigToFile(Join(ConfigDir, tomlConfigFileName))>>
  /\ applied = <<1, 2>>
  /\ cfg0["a"] # MaxVal
  /\ cfg["a"] = MaxVal
  /\ fs[Join(ConfigDir, tomlConfigFileName)] = Encoded("toml", cfg)

\* the record after the overlays of the first n resolved paths, in order, onto
\* the record New was given: a path that is missing or empty adds nothing
RECURSIVE Loaded(_)
Loaded(n) ==
  IF n = 0 THEN cfg0
  ELSE LET p == paths[n]
       IN IF fs[p].kind = "file" /\ fs[p].fmt # ""
            THEN Overlay(Loaded(n - 1), fs[p].body)
            ELSE Loaded(n - 1)

\* C25: when load has failed on the k-th resolved path, New has returned the
\* error and the record holds the overlays of the paths before the k-th, in
\* order, and nothing of the paths after it.
C25_NoRollbackOnLoadError ==
  loadRes = "err" =>
    /\ pc = "done"
    /\ err # Nil
    /\ loadIdx \in 1..Len(paths)
    /\ opened = SubSeq(paths, 1, loadIdx)
    /\ cfg = Loaded(loadIdx - 1)

\* C25 witness: the first of two resolved files set field b and the second is
\* malformed; New has returned the error and the record differs from the one
\* it was given by the first file's value.
C25_Witness ==
  /\ pc = "done"
  /\ loadRes = "err"
  /\ err # Nil
  /\ Len(paths) = 2
  /\ loadIdx = 2
  /\ Sets(paths[1], "b")
  /\ fs[paths[2]] = Garbage
  /\ cfg # cfg0
  /\ cfg["b"] = fs[paths[1]].body["b"]

\* the call before this one created the file its explicit path named, and
\* returned the error of the initial write
InitWriteFailedBefore ==
  /\ prev.n >= 1
  /\ prev.err # Nil
  /\ prev.finished[0].pc = "ret"
  /\ prev.finished[0].target = prev.env.file
  /\ prev.finished[0].err = prev.err

\* C26: when the initial write into the file just created for a missing
\* explicit path has failed, New has returned that error and the file is there
\* with no bytes; and a call of New after such a one, with the same hint,
\* resolves that path, changes neither the file nor the record and, its
\* os.Open working, returns nil.
C26_FailedInitWriteLeavesEmptyFile ==
  /\ (pc = "done" /\ resolveRes = "err" /\ finished[0].pc = "ret") =>
       /\ finished[0].target = env.file
       /\ fs0[env.file].kind = "absent"
       /\ err = finished[0].err
       /\ err # Nil
       /\ fs[env.file] = EmptyFile
       /\ paths = <<>>
  /\ (InitWriteFailedBefore /\ prev.env = env /\ pc # "resolve") =>
       /\ resolveRes = "ok"
       /\ paths = <<env.file>>
       /\ finished[0].pc = "idle"
       /\ fs[env.file] = EmptyFile
       /\ cfg = cfg0
       /\ loadRes = "err" => err = Err("open", "", env.file)
       /\ (pc = "done" /\ loadRes = "ok") => err = Nil

\* C26 witness: the first call created d/config.txt and returned the error of
\* the initial write; the second call, with the same hint, has returned nil
\* with that empty file as its one resolved path.
C26_Witness ==
  /\ InitWriteFailedBefore
  /\ prev.env = env
  /\ Ext(env.file) = ".txt"
  /\ pc = "done"
  /\ err = Nil
  /\ loadRes = "ok"
  /\ paths = <<env.file>>
  /\ opened = <<env.file>>
  /\ fs[env.file] = EmptyFile

\* (the same after a failure to create the temp file, for a supported extension)
C26_WitnessTempFailure ==
  /\ InitWriteFailedBefore
  /\ prev.err = Err("create temp", "", env.file)
  /\ Ext(env.file) = ".json"
  /\ pc = "done"
  /\ err = Nil
  /\ fs[env.file] = EmptyFile

\* C27: the temp file a writer is encoding into or about to rename is there
\* under the name the writer holds and is the one that writer created: no
\* other writer's cleanup has removed it.
C27_CleanupRemovesOnlyOwnTempFile ==
  \A w \in AllWriters :
    writer[w].pc \in {"encode", "rename"} =>
      /\ tmp[writer[w].tmp].used
      /\ tmp[writer[w].tmp].owner = w

====
